---------------------------- MODULE Spec2Model ----------------------------
(***************************************************************************)
(* Streaming backtest engine of hippie-yuan/back_test.                     *)
(*                                                                         *)
(* The repository carries the engine twice: the package src/core/          *)
(* (data.py, strategies.py, system.py) and the monolith src/base.py that   *)
(* src/nvdia_price_back_testing.py drives.  The variable impl says which   *)
(* of the two a behaviour runs; every operation is translated from both.   *)
(*                                                                         *)
(* Prices are integers and a moving average is kept as the exact fraction  *)
(* sum/n, so the arithmetic of the model is exact; binary floating point   *)
(* rounding of the Python floats is outside the model.  A date is a day    *)
(* number and its calendar year is day \div DaysPerYear.                   *)
(***************************************************************************)
EXTENDS Integers, Sequences, FiniteSets, TLC

VARIABLES
    impl,               \* "core" (src/core/*) or "base" (src/base.py)
    data,               \* DataGenerator.data: the rows [Date, Close]
    index,              \* DataGenerator.index: the cursor position
    window_size,        \* DataGenerator.window_size
    strategy,           \* the MeanStrategy object's attributes
    mean_5_prdt_data,   \* emitter local: horizon-5 prediction buffer
    mean_20_prdt_data,  \* emitter local: horizon-20 prediction buffer
    gen,                \* the emitter generator: state, snapshots, exit path
    call,               \* the last call made: name, arguments, state before, outcome
    system,             \* StockPredictionSystem: which components exist, the input file
    config              \* src/config.py: Config.DEFAULT_CONFIG and the Config objects

vars == <<impl, data, index, window_size, strategy,
          mean_5_prdt_data, mean_20_prdt_data, gen, call, system, config>>

-----------------------------------------------------------------------------
(* Bounds of the model *)

MaxCursorLen == 4    \* longest series of the cursor specification
MaxLen == 2          \* longest series of the strategy specification
MaxWindow == 2       \* largest moving-average window of direct strategy calls
MaxTrades == 2       \* direct calls stop once trade_count reaches this
RunLen == 26         \* length of the long series the emitter replays

(* Program constants *)

InitialBalance == 1000000
LotSize == 100
EmitShortWindow == 5
EmitLongWindow == 20
DaysPerYear == 365

Impls == {"core", "base"}
Prices == {3000, 4000}
Quantities == {100, 200}
FirstDays == {363}

None == <<>>
Some(x) == <<x>>
IsNone(o) == o = <<>>
Val(o) == o[1]

Min(a, b) == IF a < b THEN a ELSE b
Max(a, b) == IF a > b THEN a ELSE b

-----------------------------------------------------------------------------
(* Series *)

Row(d, c) == [Date |-> d, Close |-> c]

\* rows whose dates are consecutive days from first
SeriesOf(first, closes) ==
    [i \in 1..Len(closes) |-> Row(first + i - 1, closes[i])]

CloseSeqs(n) == [1..n -> Prices]

SeriesUpTo(maxlen) ==
    {SeriesOf(f, cs) : f \in FirstDays, cs \in UNION {CloseSeqs(n) : n \in 0..maxlen}}

\* len(df), df[:k], df.iloc[-1]
Head_(df, k) == SubSeq(df, 1, Min(Max(k, 0), Len(df)))
Tail_(df, k) == SubSeq(df, Len(df) - Min(k, Len(df)) + 1, Len(df))
Last_(df) == df[Len(df)]

-----------------------------------------------------------------------------
(* DataGenerator.iter_next_org_datas: one advance of the cursor, that is   *)
(* next() on a fresh generator object.  The body raises StopIteration      *)
(* inside a generator, which Python (PEP 479) turns into RuntimeError.     *)

iter_next_org_datas_offbyone(d, i) ==
    IF i >= Len(d)
    THEN [raised |-> "RuntimeError", index |-> i]
    ELSE [raised |-> "None",
          timestamp |-> d[i + 1].Date,
          next_org_datas |-> Head_(d, i),
          index |-> i + 1]

iter_next_org_datas_increment_first(d, i) ==
    IF i >= Len(d) - 1
    THEN [raised |-> "RuntimeError", index |-> i]
    ELSE [raised |-> "None",
          timestamp |-> d[i + 2].Date,
          next_org_datas |-> Head_(d, i + 1),
          index |-> i + 1]

iter_next_org_datas_inclusive(d, i) ==
    IF i >= Len(d) - 1
    THEN [raised |-> "RuntimeError", index |-> i]
    ELSE [raised |-> "None",
          timestamp |-> d[i + 1].Date,
          next_org_datas |-> Head_(d, i + 1),
          index |-> i + 1]

iter_next_org_datas(d, i) ==
    IF i >= Len(d) - 1
    THEN [raised |-> "RuntimeError", index |-> i]
    ELSE [raised |-> "None",
          timestamp |-> d[i + 1].Date,
          next_org_datas |-> Head_(d, i),
          index |-> i + 1]

-----------------------------------------------------------------------------
(* Numbers that Python holds as floats *)

\* the mean sum/n, kept exact; n = 0 is NaN
Mean(s, k) == [sum |-> s, n |-> k]
Num(x) == Mean(x, 1)
NaN == Mean(0, 0)
IsNaN(m) == m.n = 0
Gt(a, b) == ~IsNaN(a) /\ ~IsNaN(b) /\ a.sum * b.n > b.sum * a.n
Lt(a, b) == ~IsNaN(a) /\ ~IsNaN(b) /\ a.sum * b.n < b.sum * a.n
Eq(a, b) == ~IsNaN(a) /\ ~IsNaN(b) /\ a.sum * b.n = b.sum * a.n

\* the annualized figure (p / b) * (k / d), kept unevaluated; 0 when p = 0
ZeroRate == [p |-> 0, b |-> 1, k |-> 0, d |-> 1]
Rate(p, b, k, d) == IF p = 0 THEN ZeroRate ELSE [p |-> p, b |-> b, k |-> k, d |-> d]

RECURSIVE SumClose(_)
SumClose(df) == IF Len(df) = 0 THEN 0 ELSE df[1].Close + SumClose(Tail(df))

\* org_data[col].rolling(window=w).mean().iloc[-1], for a non-empty frame
RollingMeanLast(df, w) ==
    IF Len(df) < w THEN NaN ELSE Mean(SumClose(Tail_(df, w)), w)

\* a Python dict: the entries <<key, value>> in insertion order
DictKeys(dct) == [i \in 1..Len(dct) |-> dct[i][1]]
DictHas(dct, k) == \E i \in 1..Len(dct) : dct[i][1] = k
DictGet(dct, k) == dct[CHOOSE i \in 1..Len(dct) : dct[i][1] = k][2]
DictSet(dct, k, v) ==
    IF DictHas(dct, k)
    THEN [i \in 1..Len(dct) |-> IF dct[i][1] = k THEN <<k, v>> ELSE dct[i]]
    ELSE Append(dct, <<k, v>>)

-----------------------------------------------------------------------------
(* FiscalYearReturnCalculator *)

get_fiscal_year(date) == date \div DaysPerYear

initialize_fiscal_year_core(fyd, date, initial_balance) ==
    LET fiscal_year == get_fiscal_year(date) IN
    IF ~DictHas(fyd, fiscal_year)
    THEN DictSet(fyd, fiscal_year,
                 [start_date |-> date,
                  initial_balance |-> initial_balance,
                  current_balance |-> initial_balance,
                  trade_count |-> 0,
                  max_balance |-> initial_balance,
                  min_balance |-> initial_balance])
    ELSE fyd

initialize_fiscal_year_base(fyd, date, initial_balance) ==
    LET fiscal_year == get_fiscal_year(date) IN
    IF ~DictHas(fyd, fiscal_year)
    THEN DictSet(fyd, fiscal_year,
                 [start_balance |-> initial_balance,
                  start_date |-> date,
                  end_balance |-> initial_balance,
                  end_date |-> date,
                  trades |-> 0])
    ELSE fyd

update_fiscal_year_data_core_balance_only(fyd, date, current_balance, trade_count) ==
    LET fiscal_year == get_fiscal_year(date) IN
    IF DictHas(fyd, fiscal_year)
    THEN DictSet(fyd, fiscal_year,
                 [DictGet(fyd, fiscal_year) EXCEPT
                       !.current_balance = current_balance,
                       !.max_balance = Max(@, current_balance),
                       !.min_balance = Min(@, current_balance)])
    ELSE fyd

update_fiscal_year_data_core(fyd, date, current_balance, trade_count) ==
    LET fiscal_year == get_fiscal_year(date) IN
    IF DictHas(fyd, fiscal_year)
    THEN DictSet(fyd, fiscal_year,
                 [DictGet(fyd, fiscal_year) EXCEPT
                       !.current_balance = current_balance,
                       !.trade_count = trade_count,
                       !.max_balance = Max(@, current_balance),
                       !.min_balance = Min(@, current_balance)])
    ELSE fyd

update_fiscal_year_data_base(fyd, date, current_balance, trade_count) ==
    LET fiscal_year == get_fiscal_year(date) IN
    IF DictHas(fyd, fiscal_year)
    THEN DictSet(fyd, fiscal_year,
                 [DictGet(fyd, fiscal_year) EXCEPT
                       !.end_balance = current_balance,
                       !.end_date = date,
                       !.trades = trade_count])
    ELSE fyd

-----
(* BaseStrategy: construction, buy, sell *)

BaseStrategy_init_core ==
    [balance |-> InitialBalance,
     share_num |-> 0,
     trade_count |-> 0,
     start_date |-> None,
     current_date |-> None,
     fiscal_year_data |-> <<>>,
     profit_info |-> [total_profit |-> 0,
                      annualized_return |-> ZeroRate,
                      current_total |-> 0]]

BaseStrategy_init_base ==
    [balance |-> InitialBalance,
     share_num |-> 0,
     last_action |-> "None",
     trade_count |-> 0,
     initial_balance |-> InitialBalance,
     total_profit |-> 0,
     annualized_return |-> ZeroRate,
     start_date |-> None,
     current_date |-> None,
     fiscal_year_data |-> <<>>]

BaseStrategy_init(i) ==
    IF i = "core" THEN BaseStrategy_init_core ELSE BaseStrategy_init_base

execute_buy_core_rounded(self, current_price, shares_to_buy) ==
    LET cost == current_price * shares_to_buy IN
    IF cost <= self.balance
    THEN [self EXCEPT !.balance = @ - cost,
                      !.share_num = @ + LotSize,
                      !.trade_count = @ + 1]
    ELSE self

execute_buy_core(self, current_price, shares_to_buy) ==
    LET cost == current_price * shares_to_buy IN
    IF cost <= self.balance
    THEN [self EXCEPT !.balance = @ - cost,
                      !.share_num = @ + shares_to_buy,
                      !.trade_count = @ + 1]
    ELSE self

execute_buy_base_noguard(self, current_price, shares_to_buy) ==
    LET cost == shares_to_buy * current_price IN
    [self EXCEPT !.balance = @ - cost,
                 !.share_num = @ + shares_to_buy,
                 !.trade_count = @ + 1,
                 !.last_action = "BUY"]

execute_buy_base(self, current_price, shares_to_buy) ==
    LET cost == shares_to_buy * current_price IN
    IF self.balance >= cost
    THEN [self EXCEPT !.balance = @ - cost,
                      !.share_num = @ + shares_to_buy,
                      !.trade_count = @ + 1,
                      !.last_action = "BUY"]
    ELSE self

execute_sell_core_price(self, current_price, shares_to_sell) ==
    IF shares_to_sell <= self.share_num
    THEN [self EXCEPT !.balance = @ + current_price * LotSize,
                      !.share_num = @ - shares_to_sell,
                      !.trade_count = @ + 1]
    ELSE self

execute_sell_core(self, current_price, shares_to_sell) ==
    IF shares_to_sell <= self.share_num
    THEN LET revenue == current_price * shares_to_sell IN
         [self EXCEPT !.balance = @ + revenue,
                      !.share_num = @ - shares_to_sell,
                      !.trade_count = @ + 1]
    ELSE self

\* src/base.py sells without looking at share_num
execute_sell_base_uncounted(self, current_price, shares_to_sell) ==
    LET revenue == shares_to_sell * current_price IN
    [self EXCEPT !.balance = @ + revenue,
                 !.share_num = @ - shares_to_sell,
                 !.last_action = "SELL"]

execute_sell_base(self, current_price, shares_to_sell) ==
    LET revenue == shares_to_sell * current_price IN
    [self EXCEPT !.balance = @ + revenue,
                 !.share_num = @ - shares_to_sell,
                 !.trade_count = @ + 1,
                 !.last_action = "SELL"]

execute_buy(self, current_price, shares_to_buy) ==
    IF impl = "core" THEN execute_buy_core(self, current_price, shares_to_buy)
    ELSE execute_buy_base(self, current_price, shares_to_buy)

execute_sell(self, current_price, shares_to_sell) ==
    IF impl = "core" THEN execute_sell_core(self, current_price, shares_to_sell)
    ELSE execute_sell_base(self, current_price, shares_to_sell)

-----------------------------------------------------------------------------
(* BaseStrategy: settlement *)

\* src/core: days_elapsed is read at the end although it is bound only when
\* both dates are set, so the call raises UnboundLocalError after it has
\* stored profit_info
_update_profit_info_core(self, current_price) ==
    LET current_total == self.balance + (self.share_num * current_price)
        total_profit == current_total - InitialBalance
        dated == ~IsNone(self.start_date) /\ ~IsNone(self.current_date)
        days_elapsed == Val(self.current_date) - Val(self.start_date)
        annualized_return ==
            IF dated /\ days_elapsed > 0
            THEN Rate(total_profit, InitialBalance, DaysPerYear, days_elapsed)
            ELSE ZeroRate
        fyd == IF ~IsNone(self.current_date)
               THEN update_fiscal_year_data_core(self.fiscal_year_data,
                        Val(self.current_date), current_total, self.trade_count)
               ELSE self.fiscal_year_data
    IN [self |-> [self EXCEPT
                    !.profit_info = [total_profit |-> total_profit,
                                     annualized_return |-> annualized_return,
                                     current_total |-> current_total],
                    !.fiscal_year_data = fyd],
        raised |-> IF dated THEN "None" ELSE "UnboundLocalError"]

_update_profit_info_base(self, current_price) ==
    LET current_total == self.balance + (self.share_num * current_price)
        total_profit == current_total - self.initial_balance
        fyd == IF ~IsNone(self.current_date)
               THEN update_fiscal_year_data_base(self.fiscal_year_data,
                        Val(self.current_date), current_total, self.trade_count)
               ELSE self.fiscal_year_data
        dated == ~IsNone(self.start_date) /\ ~IsNone(self.current_date)
        days_elapsed == Val(self.current_date) - Val(self.start_date)
        annualized_return ==
            IF dated /\ days_elapsed > 0
            THEN Rate(total_profit, self.initial_balance, DaysPerYear * 100, days_elapsed)
            ELSE ZeroRate
    IN [self |-> [self EXCEPT !.total_profit = total_profit,
                              !.fiscal_year_data = fyd,
                              !.annualized_return = annualized_return],
        raised |-> "None"]

_update_profit_info(self, current_price) ==
    IF impl = "core" THEN _update_profit_info_core(self, current_price)
    ELSE _update_profit_info_base(self, current_price)

\* the stored profit figures of either implementation
StoredProfit(self) ==
    IF impl = "core"
    THEN <<self.profit_info.total_profit, self.profit_info.annualized_return>>
    ELSE <<self.total_profit, self.annualized_return>>

-----------------------------------------------------------------------------
(* MeanStrategy *)

predict_price_core(org_data, window) ==
    IF Len(org_data) < window
    THEN IF Len(org_data) > 0 THEN Num(Last_(org_data).Close) ELSE Num(0)
    ELSE RollingMeanLast(org_data, window)

\* src/base.py: the mean of org_data[-window:], NaN for an empty frame
predict_price_base(org_data, window) ==
    LET window_df == Tail_(org_data, window) IN
    Mean(SumClose(window_df), Len(window_df))

predict_price(org_data, window) ==
    IF impl = "core" THEN predict_price_core(org_data, window)
    ELSE predict_price_base(org_data, window)

calculate_moving_averages_core_swapped(org_data, short_window, long_window) ==
    IF Len(org_data) < Max(short_window, long_window)
    THEN LET current_price ==
                 IF Len(org_data) > 0 THEN Num(Last_(org_data).Close) ELSE Num(0)
         IN <<current_price, current_price>>
    ELSE <<RollingMeanLast(org_data, long_window),
           RollingMeanLast(org_data, short_window)>>

calculate_moving_averages_core(org_data, short_window, long_window) ==
    IF Len(org_data) < Max(short_window, long_window)
    THEN LET current_price ==
                 IF Len(org_data) > 0 THEN Num(Last_(org_data).Close) ELSE Num(0)
         IN <<current_price, current_price>>
    ELSE <<RollingMeanLast(org_data, short_window),
           RollingMeanLast(org_data, long_window)>>

calculate_moving_averages_base(org_data, short_window, long_window) ==
    <<RollingMeanLast(org_data, short_window),
      RollingMeanLast(org_data, long_window)>>

calculate_moving_averages(org_data, short_window, long_window) ==
    IF impl = "core"
    THEN calculate_moving_averages_core(org_data, short_window, long_window)
    ELSE calculate_moving_averages_base(org_data, short_window, long_window)

should_buy_core(self, short_ma, long_ma, current_price) ==
    Gt(short_ma, long_ma) /\ self.balance > 0

should_buy_base(self, short_ma, long_ma, current_price) ==
    Gt(short_ma, long_ma) /\ self.balance >= current_price * 100

should_sell_core(self, short_ma, long_ma, current_price) ==
    Lt(short_ma, long_ma) /\ self.share_num > 0

should_sell_base_noshares(self, short_ma, long_ma, current_price) ==
    Lt(short_ma, long_ma)

should_sell_base_le(self, short_ma, long_ma, current_price) ==
    ~Gt(short_ma, long_ma) /\ self.share_num >= 100

should_sell_base(self, short_ma, long_ma, current_price) ==
    Lt(short_ma, long_ma) /\ self.share_num >= 100

should_buy(self, short_ma, long_ma, current_price) ==
    IF impl = "core" THEN should_buy_core(self, short_ma, long_ma, current_price)
    ELSE should_buy_base(self, short_ma, long_ma, current_price)

should_sell(self, short_ma, long_ma, current_price) ==
    IF impl = "core" THEN should_sell_core(self, short_ma, long_ma, current_price)
    ELSE should_sell_base(self, short_ma, long_ma, current_price)

set_start_date_core(self, start_date) ==
    [self EXCEPT !.start_date = Some(start_date),
                 !.fiscal_year_data =
                     initialize_fiscal_year_core(@, start_date, self.balance)]

set_start_date_base(self, start_date) ==
    [self EXCEPT !.start_date = Some(start_date),
                 !.fiscal_year_data =
                     initialize_fiscal_year_base(@, start_date, self.initial_balance)]

\* the trade decision of one step: buy first, else sell, else nothing
Decide_core(self, short_ma, long_ma, current_price) ==
    IF should_buy_core(self, short_ma, long_ma, current_price)
    THEN execute_buy_core(self, current_price, LotSize)
    ELSE IF should_sell_core(self, short_ma, long_ma, current_price)
         THEN execute_sell_core(self, current_price, LotSize)
         ELSE self

Decide_base(self, short_ma, long_ma, current_price) ==
    IF should_buy_base(self, short_ma, long_ma, current_price)
    THEN execute_buy_base(self, current_price, LotSize)
    ELSE IF should_sell_base(self, short_ma, long_ma, current_price)
         THEN execute_sell_base(self, current_price, LotSize)
         ELSE self

\* src/core returns early on an empty history only
execute_strategy_core(self, org_data, short_window, long_window, next_timestamp) ==
    IF Len(org_data) = 0 THEN self
    ELSE
    LET current_price == Last_(org_data).Close
        s1 == IF IsNone(self.start_date)
              THEN set_start_date_core(self, org_data[1].Date)
              ELSE self
        s2 == [s1 EXCEPT !.current_date = Some(next_timestamp)]
        current_total == s2.balance + (s2.share_num * current_price)
        s3 == IF ~DictHas(s2.fiscal_year_data, get_fiscal_year(next_timestamp))
              THEN [s2 EXCEPT !.fiscal_year_data =
                       initialize_fiscal_year_core(@, next_timestamp, current_total)]
              ELSE s2
        ma == calculate_moving_averages_core(org_data, short_window, long_window)
        s4 == Decide_core(s3, ma[1], ma[2], current_price)
    IN _update_profit_info_core(s4, current_price).self

\* src/base.py returns early when the history is shorter than long_window
execute_strategy_base(self, org_data, short_window, long_window, next_timestamp) ==
    IF Len(org_data) < long_window THEN self
    ELSE
    LET current_price == Last_(org_data).Close
        s1 == IF IsNone(self.start_date)
              THEN set_start_date_base(self, org_data[1].Date)
              ELSE self
        s2 == [s1 EXCEPT !.current_date = Some(next_timestamp)]
        current_total == s2.balance + (s2.share_num * current_price)
        s3 == IF ~DictHas(s2.fiscal_year_data, get_fiscal_year(next_timestamp))
              THEN [s2 EXCEPT !.fiscal_year_data =
                       initialize_fiscal_year_base(@, next_timestamp, current_total)]
              ELSE s2
        ma == calculate_moving_averages_base(org_data, short_window, long_window)
        s4 == Decide_base(s3, ma[1], ma[2], current_price)
    IN _update_profit_info_base(s4, current_price).self

execute_strategy(self, org_data, short_window, long_window, next_timestamp) ==
    IF impl = "core"
    THEN execute_strategy_core(self, org_data, short_window, long_window, next_timestamp)
    ELSE execute_strategy_base(self, org_data, short_window, long_window, next_timestamp)

-----------------------------------------------------------------------------
(* Period returns and the strategy_info of a snapshot *)

\* src/core: the plain return of the period, not annualized
calculate_fiscal_year_return_core(fyd, fiscal_year) ==
    IF ~DictHas(fyd, fiscal_year) THEN ZeroRate
    ELSE LET d == DictGet(fyd, fiscal_year) IN
         IF d.initial_balance = 0 THEN ZeroRate
         ELSE Rate(d.current_balance - d.initial_balance, d.initial_balance, 1, 1)

calculate_fiscal_year_return_base(fyd, fiscal_year) ==
    IF ~DictHas(fyd, fiscal_year) THEN ZeroRate
    ELSE LET d == DictGet(fyd, fiscal_year)
             days_in_year == d.end_date - d.start_date
         IN IF d.start_balance = 0 THEN ZeroRate
            ELSE IF days_in_year <= 0 THEN ZeroRate
            ELSE Rate(d.end_balance - d.start_balance, d.start_balance,
                      DaysPerYear * 100, days_in_year)

\* sorted(keys): insertion of each key into an ascending sequence
RECURSIVE SortedSeq(_)
SortedSeq(ks) ==
    IF Len(ks) = 0 THEN <<>>
    ELSE LET rest == SortedSeq(Tail(ks))
             lo == SelectSeq(rest, LAMBDA x : x < Head(ks))
             hi == SelectSeq(rest, LAMBDA x : x >= Head(ks))
         IN lo \o <<Head(ks)>> \o hi

\* src/core walks the dict in insertion order
get_all_fiscal_year_returns_core(fyd) ==
    [i \in 1..Len(fyd) |->
        <<fyd[i][1], calculate_fiscal_year_return_core(fyd, fyd[i][1])>>]

get_all_fiscal_year_returns_base(fyd) ==
    LET ks == SortedSeq(DictKeys(fyd)) IN
    [i \in 1..Len(ks) |-> <<ks[i], calculate_fiscal_year_return_base(fyd, ks[i])>>]

\* src/core: the total is the one stored by the last settlement
get_strategy_result_core(self) ==
    <<self.balance, self.share_num, self.trade_count,
      Num(self.profit_info.current_total)>>

\* src/base.py: balance + share_num * 0.1, kept as the exact fraction
get_strategy_result_base(self) ==
    <<self.balance, self.share_num, self.trade_count,
      Mean(self.balance * 10 + self.share_num, 10)>>

get_strategy_result(self) ==
    IF impl = "core" THEN get_strategy_result_core(self)
    ELSE get_strategy_result_base(self)

get_profit_info_core(self, current_price) ==
    LET r == _update_profit_info_core(self, current_price)
        s == r.self
    IN [self |-> s,
        raised |-> r.raised,
        ret |-> [balance |-> s.balance,
                 shares |-> s.share_num,
                 trades |-> s.trade_count,
                 current_price |-> current_price,
                 total_profit |-> s.profit_info.total_profit,
                 annualized_return |-> s.profit_info.annualized_return,
                 current_total |-> s.profit_info.current_total,
                 fiscal_year_returns |->
                     get_all_fiscal_year_returns_core(s.fiscal_year_data),
                 current_fiscal_year_return |->
                     IF ~IsNone(s.current_date)
                     THEN calculate_fiscal_year_return_core(s.fiscal_year_data,
                              get_fiscal_year(Val(s.current_date)))
                     ELSE ZeroRate]]

get_profit_info_base_cash_only(self, current_price) ==
    LET r == _update_profit_info_base(self, current_price)
        s == r.self
        current_total == s.balance
    IN [self |-> s,
        raised |-> r.raised,
        ret |-> [balance |-> s.balance,
                 shares |-> s.share_num,
                 trades |-> s.trade_count,
                 current_price |-> current_price,
                 total_profit |-> s.total_profit,
                 annualized_return |-> s.annualized_return,
                 current_total |-> current_total,
                 fiscal_year_returns |->
                     get_all_fiscal_year_returns_base(s.fiscal_year_data),
                 current_fiscal_year_return |->
                     IF ~IsNone(s.current_date)
                     THEN calculate_fiscal_year_return_base(s.fiscal_year_data,
                              get_fiscal_year(Val(s.current_date)))
                     ELSE ZeroRate]]

get_profit_info_base(self, current_price) ==
    LET r == _update_profit_info_base(self, current_price)
        s == r.self
        current_total == s.balance + (s.share_num * current_price)
    IN [self |-> s,
        raised |-> r.raised,
        ret |-> [balance |-> s.balance,
                 shares |-> s.share_num,
                 trades |-> s.trade_count,
                 current_price |-> current_price,
                 total_profit |-> s.total_profit,
                 annualized_return |-> s.annualized_return,
                 current_total |-> current_total,
                 fiscal_year_returns |->
                     get_all_fiscal_year_returns_base(s.fiscal_year_data),
                 current_fiscal_year_return |->
                     IF ~IsNone(s.current_date)
                     THEN calculate_fiscal_year_return_base(s.fiscal_year_data,
                              get_fiscal_year(Val(s.current_date)))
                     ELSE ZeroRate]]

get_profit_info(self, current_price) ==
    IF impl = "core" THEN get_profit_info_core(self, current_price)
    ELSE get_profit_info_base(self, current_price)

-----------------------------------------------------------------------------
(* Configuration (src/config.py).  A Python value is a record whose one     *)
(* field names its type, so values of different types are unequal; an int   *)
(* and a float are both num, as Python compares them by value.  A dict is   *)
(* a function on its keys, a JSON object a sequence of <<key, value>>.      *)
(* The five dicts nested in DEFAULT_CONFIG are objects that can be shared:  *)
(* an entry [ref |-> s] of a Config's own top-level dict is the very object *)
(* DEFAULT_CONFIG[s]; an entry [own |-> v] is a value nothing else holds.   *)

Str(s) == [str |-> s]
Number(n) == [num |-> n]
Bool(b) == [bool |-> b]
Tuple(t) == [tuple |-> t]
List(l) == [list |-> l]
Dict(d) == [dict |-> d]
NoneValue == [none |-> TRUE]
IsDict(v) == "dict" \in DOMAIN v

EmptyDict == [k \in {} |-> NoneValue]

\* dict.update
update(d, values) ==
    [k \in DOMAIN d \cup DOMAIN values |->
        IF k \in DOMAIN values THEN values[k] ELSE d[k]]

\* d[k] = v on a dict that may lack k
SetItem(d, k, v) ==
    [x \in DOMAIN d \cup {k} |-> IF x = k THEN v ELSE d[x]]

DEFAULT_CONFIG ==
    [data |->
        [csv_path |-> Str("nvda_hist.csv"),
         window_size |-> Number(50),
         columns |-> List(<<"Date", "Close">>)],
     animation |->
        [interval |-> Number(20),
         figure_size |-> Tuple(<<14, 10>>),
         dpi |-> Number(100)],
     strategy |->
        [short_window |-> Number(5),
         long_window |-> Number(20),
         initial_balance |-> Number(1000000),
         shares_per_trade |-> Number(100),
         trade_update_frequency |-> Number(10)],
     logging |->
        [level |-> Str("INFO"),
         log_file |-> NoneValue,
         format |-> Str("%(asctime)s - %(name)s - %(levelname)s - %(message)s")],
     performance |->
        [enable_monitoring |-> Bool(TRUE),
         log_slow_operations |-> Bool(TRUE),
         slow_threshold |-> Number(1)]]

env_mappings ==
    << <<"STOCK_CSV_PATH", "data", "csv_path">>,
       <<"WINDOW_SIZE", "data", "window_size">>,
       <<"ANIMATION_INTERVAL", "animation", "interval">>,
       <<"SHORT_WINDOW", "strategy", "short_window">>,
       <<"LONG_WINDOW", "strategy", "long_window">>,
       <<"INITIAL_BALANCE", "strategy", "initial_balance">>,
       <<"SHARES_PER_TRADE", "strategy", "shares_per_trade">>,
       <<"TRADE_UPDATE_FREQ", "strategy", "trade_update_frequency">>,
       <<"LOG_LEVEL", "logging", "level">>,
       <<"LOG_FILE", "logging", "log_file">>,
       <<"ENABLE_PERFORMANCE_MONITORING", "performance", "enable_monitoring">> >>

\* int(value) and float(value) on the strings the environment can hold:
\* a numeral gives its number, anything else raises ValueError
Numerals == [n10 |-> 10, n30 |-> 30]
Numeral(value) ==
    IF value = "10" THEN Some(Numerals.n10)
    ELSE IF value = "30" THEN Some(Numerals.n30)
    ELSE None

\* str.lower on the strings the environment can hold
lower(value) ==
    IF value = "Yes" THEN "yes"
    ELSE IF value = "TRUE" THEN "true"
    ELSE value

\* os.getenv
getenv(env, env_var) ==
    IF env_var \in DOMAIN env THEN Some(env[env_var]) ELSE None

\* the type conversion of _set_nested_value: Some(converted) or None when
\* int() or float() raises
Converted(key, value) ==
    IF key \in {"window_size", "interval", "short_window", "long_window",
                "shares_per_trade", "trade_update_frequency"}
    THEN (IF IsNone(Numeral(value)) THEN None ELSE Some(Number(Val(Numeral(value)))))
    ELSE IF key \in {"initial_balance"}
    THEN (IF IsNone(Numeral(value)) THEN None ELSE Some(Number(Val(Numeral(value)))))
    ELSE IF key \in {"enable_monitoring", "log_slow_operations"}
    THEN Some(Bool(lower(value) \in {"true", "1", "yes"}))
    ELSE Some(Str(value))

\* o is [DEFAULT_CONFIG, config]: the class attribute's nested dicts and
\* self.config; the result adds what was raised
_set_nested_value(o, path, value) ==
    LET section == path[1]
        key == path[2]
        created == IF section \in DOMAIN o.config THEN o.config
                   ELSE SetItem(o.config, section, [own |-> Dict(EmptyDict)])
        current == created[section]
        conv == Converted(key, value)
    IN IF IsNone(conv)
       THEN [DEFAULT_CONFIG |-> o.DEFAULT_CONFIG, config |-> created,
             raised |-> "ValueError"]
       ELSE IF "ref" \in DOMAIN current
       THEN [DEFAULT_CONFIG |->
                [o.DEFAULT_CONFIG EXCEPT ![current.ref] = SetItem(@, key, Val(conv))],
             config |-> created,
             raised |-> "None"]
       ELSE IF IsDict(current.own)
       THEN [DEFAULT_CONFIG |-> o.DEFAULT_CONFIG,
             config |-> [created EXCEPT ![section] =
                            [own |-> Dict(SetItem(current.own.dict, key, Val(conv)))]],
             raised |-> "None"]
       ELSE [DEFAULT_CONFIG |-> o.DEFAULT_CONFIG, config |-> created,
             raised |-> "TypeError"]

RECURSIVE load_from_env_from(_, _, _)
load_from_env_from(o, env, i) ==
    IF i > Len(env_mappings)
    THEN [DEFAULT_CONFIG |-> o.DEFAULT_CONFIG, config |-> o.config, raised |-> "None"]
    ELSE LET value == getenv(env, env_mappings[i][1])
         IN IF IsNone(value) THEN load_from_env_from(o, env, i + 1)
            ELSE LET r == _set_nested_value(
                              o, <<env_mappings[i][2], env_mappings[i][3]>>, Val(value))
                 IN IF r.raised # "None" THEN r
                    ELSE load_from_env_from(r, env, i + 1)

load_from_env(o, env) == load_from_env_from(o, env, 1)

\* one iteration of _merge_config
MergeSection(o, section, values) ==
    IF section \in DOMAIN o.config /\ IsDict(values)
    THEN LET current == o.config[section]
         IN IF "ref" \in DOMAIN current
            THEN [DEFAULT_CONFIG |->
                     [o.DEFAULT_CONFIG EXCEPT ![current.ref] = update(@, values.dict)],
                  config |-> o.config,
                  raised |-> "None"]
            ELSE IF IsDict(current.own)
            THEN [DEFAULT_CONFIG |-> o.DEFAULT_CONFIG,
                  config |-> [o.config EXCEPT ![section] =
                                 [own |-> Dict(update(current.own.dict, values.dict))]],
                  raised |-> "None"]
            ELSE [DEFAULT_CONFIG |-> o.DEFAULT_CONFIG, config |-> o.config,
                  raised |-> "AttributeError"]
    ELSE [DEFAULT_CONFIG |-> o.DEFAULT_CONFIG,
          config |-> SetItem(o.config, section, [own |-> values]),
          raised |-> "None"]

RECURSIVE _merge_config(_, _)
_merge_config(o, new_config) ==
    IF new_config = <<>>
    THEN [DEFAULT_CONFIG |-> o.DEFAULT_CONFIG, config |-> o.config, raised |-> "None"]
    ELSE LET r == MergeSection(o, new_config[1][1], new_config[1][2])
         IN IF r.raised # "None" THEN r
            ELSE _merge_config(r, Tail(new_config))

\* load_from_file: whatever open, json.load or the merge raises is printed
\* as a warning and swallowed; what was merged before it stays
load_from_file(o, config_file) ==
    IF config_file.exists /\ "json" \in DOMAIN config_file.content
    THEN LET r == _merge_config(o, config_file.content.json)
         IN [DEFAULT_CONFIG |-> r.DEFAULT_CONFIG, config |-> r.config,
             raised |-> "None"]
    ELSE [DEFAULT_CONFIG |-> o.DEFAULT_CONFIG, config |-> o.config, raised |-> "None"]

\* Config.__init__: self.config = self.DEFAULT_CONFIG.copy() copies the outer
\* dict only, so every section of the new object is the class's own dict
Config_init(shared, config_file, env) ==
    LET copied == [DEFAULT_CONFIG |-> shared,
                   config |-> [s \in DOMAIN shared |-> [ref |-> s]]]
        loaded == IF ~IsNone(config_file) /\ Val(config_file).exists
                  THEN load_from_file(copied, Val(config_file))
                  ELSE copied
    IN load_from_env(loaded, env)

\* the value an entry of self.config stands for
Resolve(shared, entry) ==
    IF "ref" \in DOMAIN entry THEN Dict(shared[entry.ref]) ELSE entry.own

Config_get(o, section, key, default) ==
    IF section \notin DOMAIN o.config
    THEN [value |-> default, raised |-> "None"]
    ELSE LET v == Resolve(o.DEFAULT_CONFIG, o.config[section])
         IN IF IsNone(key) THEN [value |-> v, raised |-> "None"]
            ELSE IF ~IsDict(v) THEN [value |-> NoneValue, raised |-> "AttributeError"]
            ELSE IF Val(key) \in DOMAIN v.dict
            THEN [value |-> v.dict[Val(key)], raised |-> "None"]
            ELSE [value |-> default, raised |-> "None"]

\* to_dict: a copy of the outer dict, with every entry resolved
to_dict(o) ==
    [s \in DOMAIN o.config |-> Resolve(o.DEFAULT_CONFIG, o.config[s])]

EmptyEnv == [v \in {} |-> ""]

\* a Config object: its top-level dict, and whether it was built with no
\* config file and no override in the environment and not loaded into since
ConfigObject(cfg, config_file, env) ==
    [config |-> cfg, plain |-> IsNone(config_file) /\ env = EmptyEnv]

\* the state src/config.py is in once imported: the class and the
\* module-level object config = Config()
Imported(env) ==
    LET r == Config_init(DEFAULT_CONFIG, None, env)
    IN [DEFAULT_CONFIG |-> r.DEFAULT_CONFIG,
        objects |-> <<ConfigObject(r.config, None, env)>>]

-----------------------------------------------------------------------------
(* State *)

WindowSizes == {1, 3}
DefaultWindowSize == 50

NoCall == [op |-> "init", args |-> <<>>]

\* the components as a caller that builds them itself has them (main() of
\* src/nvdia_price_back_testing.py, the tests): cursor, strategy and emitter
\* exist, no animation
Assembled ==
    [file |-> "ok",
     data_generator |-> TRUE,
     strategy |-> TRUE,
     animation |-> "None",
     data_stream_gen |-> TRUE]

\* the record of a call: what was called with what, the strategy and the
\* cursor position before it, and what it returned or raised
Call(op, args, ret) ==
    [op |-> op, args |-> args, pre |-> strategy, pre_index |-> index, ret |-> ret]

InitCommon ==
    /\ impl \in Impls
    /\ strategy = BaseStrategy_init(impl)
    /\ mean_5_prdt_data = <<>>
    /\ mean_20_prdt_data = <<>>
    /\ gen = [state |-> "suspended", emitted |-> 0, exit |-> "None", summaries |-> 0,
              first_index |-> index]
    /\ call = NoCall
    /\ system = Assembled
    /\ config = Imported(EmptyEnv)

-----------------------------------------------------------------------------
(* The cursor driven directly, as src/test_system.py does *)

InitCursor ==
    /\ data \in SeriesUpTo(MaxCursorLen)
    /\ index \in 0..(MaxCursorLen + 1)
    /\ window_size \in WindowSizes
    /\ InitCommon

IterNext ==
    LET r == iter_next_org_datas(data, index) IN
    /\ index' = r.index
    /\ call' = Call("iter_next_org_datas", <<>>, r)
    /\ UNCHANGED <<config, system, impl, data, window_size, strategy,
                   mean_5_prdt_data, mean_20_prdt_data, gen>>

NextCursor == IterNext

SpecCursor == InitCursor /\ [][NextCursor]_vars

-----------------------------------------------------------------------------
(* The strategy object driven directly: buy, sell and strategy steps with   *)
(* any arguments, the history of a step being a prefix of the series        *)

InitLedger ==
    /\ data \in SeriesUpTo(MaxLen)
    /\ index = 0
    /\ window_size = DefaultWindowSize
    /\ InitCommon

WindowPairs == {w \in (1..MaxWindow) \X (1..MaxWindow) : w[1] < w[2]}

ExecuteBuy(current_price, shares_to_buy) ==
    /\ strategy.trade_count < MaxTrades
    /\ strategy' = execute_buy(strategy, current_price, shares_to_buy)
    /\ call' = Call("execute_buy", <<current_price, shares_to_buy>>, None)
    /\ UNCHANGED <<config, system, impl, data, index, window_size,
                   mean_5_prdt_data, mean_20_prdt_data, gen>>

ExecuteSell(current_price, shares_to_sell) ==
    /\ strategy.trade_count < MaxTrades
    /\ strategy' = execute_sell(strategy, current_price, shares_to_sell)
    /\ call' = Call("execute_sell", <<current_price, shares_to_sell>>,
                    \* the strategy before the buy, when this sell directly
                    \* follows a buy of the same price and quantity
                    [buy_before |->
                        IF /\ call.op = "execute_buy"
                           /\ call.args = <<current_price, shares_to_sell>>
                        THEN Some(call.pre) ELSE None])
    /\ UNCHANGED <<config, system, impl, data, index, window_size,
                   mean_5_prdt_data, mean_20_prdt_data, gen>>

\* the date of the row that follows the first k rows
NextDate(d, k) == d[1].Date + k

\* what one execute_strategy call computes on the way to its decision
StepInfo(self, org_data, short_window, long_window) ==
    IF Len(org_data) = 0
    THEN [len |-> 0]
    ELSE LET ma == calculate_moving_averages(org_data, short_window, long_window)
             current_price == Last_(org_data).Close
         IN [len |-> Len(org_data),
             current_price |-> current_price,
             short_ma |-> ma[1],
             long_ma |-> ma[2],
             should_buy |-> should_buy(self, ma[1], ma[2], current_price),
             should_sell |-> should_sell(self, ma[1], ma[2], current_price)]

ExecuteStrategy(k, short_window, long_window) ==
    /\ strategy.trade_count < MaxTrades
    /\ Len(data) > 0
    /\ k <= Len(data)
    /\ LET org_data == Head_(data, k)
           next_timestamp == NextDate(data, k)
       IN /\ strategy' = execute_strategy(strategy, org_data, short_window,
                                          long_window, next_timestamp)
          /\ call' = Call("execute_strategy",
                          <<k, short_window, long_window, next_timestamp>>,
                          StepInfo(strategy, org_data, short_window, long_window))
    /\ UNCHANGED <<config, system, impl, data, index, window_size,
                   mean_5_prdt_data, mean_20_prdt_data, gen>>

\* whether the last call was a strategy step that settled, and at what price
SettledPrice ==
    IF /\ call.op = "execute_strategy"
       /\ call.ret.len > 0
       /\ (impl = "base" => call.ret.len >= call.args[3])
    THEN Some(call.ret.current_price) ELSE None

GetStrategyResult ==
    /\ call.op # "get_strategy_result"
    /\ call' = Call("get_strategy_result", <<>>,
                    [value |-> get_strategy_result(strategy),
                     settled_price |-> SettledPrice])
    /\ UNCHANGED <<config, system, impl, data, index, window_size, strategy,
                   mean_5_prdt_data, mean_20_prdt_data, gen>>

NextLedger ==
    \/ \E p \in Prices, q \in Quantities : ExecuteBuy(p, q)
    \/ \E p \in Prices, q \in Quantities : ExecuteSell(p, q)
    \/ \E k \in 0..MaxLen, w \in WindowPairs : ExecuteStrategy(k, w[1], w[2])
    \/ GetStrategyResult

SpecLedger == InitLedger /\ [][NextLedger]_vars

-----------------------------------------------------------------------------
(* The FiscalYearReturnCalculator of the strategy driven directly: periods  *)
(* initialized and updated in any order, returns queried in between         *)

FiscalDates == {363, 364, 366}
FiscalBalances == {0, 1000000, 1100000}
FiscalTradeCounts == {1}

initialize_fiscal_year(fyd, date, initial_balance) ==
    IF impl = "core" THEN initialize_fiscal_year_core(fyd, date, initial_balance)
    ELSE initialize_fiscal_year_base(fyd, date, initial_balance)

update_fiscal_year_data(fyd, date, current_balance, trade_count) ==
    IF impl = "core"
    THEN update_fiscal_year_data_core(fyd, date, current_balance, trade_count)
    ELSE update_fiscal_year_data_base(fyd, date, current_balance, trade_count)

calculate_fiscal_year_return(fyd, fiscal_year) ==
    IF impl = "core" THEN calculate_fiscal_year_return_core(fyd, fiscal_year)
    ELSE calculate_fiscal_year_return_base(fyd, fiscal_year)

get_all_fiscal_year_returns(fyd) ==
    IF impl = "core" THEN get_all_fiscal_year_returns_core(fyd)
    ELSE get_all_fiscal_year_returns_base(fyd)

InitFiscal ==
    /\ data = <<>>
    /\ index = 0
    /\ window_size = DefaultWindowSize
    /\ InitCommon

InitializeFiscalYear(date, initial_balance) ==
    /\ strategy' = [strategy EXCEPT !.fiscal_year_data =
                       initialize_fiscal_year(@, date, initial_balance)]
    /\ call' = Call("initialize_fiscal_year", <<date, initial_balance>>, None)
    /\ UNCHANGED <<config, system, impl, data, index, window_size,
                   mean_5_prdt_data, mean_20_prdt_data, gen>>

UpdateFiscalYearData(date, current_balance, trade_count) ==
    /\ strategy' = [strategy EXCEPT !.fiscal_year_data =
                       update_fiscal_year_data(@, date, current_balance, trade_count)]
    /\ call' = Call("update_fiscal_year_data",
                    <<date, current_balance, trade_count>>, None)
    /\ UNCHANGED <<config, system, impl, data, index, window_size,
                   mean_5_prdt_data, mean_20_prdt_data, gen>>

CalculateFiscalYearReturn(fiscal_year) ==
    /\ call' = Call("calculate_fiscal_year_return", <<fiscal_year>>,
                    [value |-> calculate_fiscal_year_return(
                                   strategy.fiscal_year_data, fiscal_year)])
    /\ UNCHANGED <<config, system, impl, data, index, window_size, strategy,
                   mean_5_prdt_data, mean_20_prdt_data, gen>>

GetAllFiscalYearReturns ==
    /\ call' = Call("get_all_fiscal_year_returns", <<>>,
                    [value |-> get_all_fiscal_year_returns(strategy.fiscal_year_data)])
    /\ UNCHANGED <<config, system, impl, data, index, window_size, strategy,
                   mean_5_prdt_data, mean_20_prdt_data, gen>>

NextFiscal ==
    \/ \E d \in FiscalDates, b \in FiscalBalances : InitializeFiscalYear(d, b)
    \/ \E d \in FiscalDates, b \in FiscalBalances, t \in FiscalTradeCounts :
           UpdateFiscalYearData(d, b, t)
    \/ \E d \in FiscalDates : CalculateFiscalYearReturn(get_fiscal_year(d))
    \/ GetAllFiscalYearReturns

SpecFiscal == InitFiscal /\ [][NextFiscal]_vars

-----------------------------------------------------------------------------
(* The step emitter: StockPredictionSystem._data_stream_generator and       *)
(* data_stream_generator of src/nvdia_price_back_testing.py, which differ   *)
(* only in the strategy they drive.  One Pull is one next() on the          *)
(* generator: a whole pass through the loop body, up to the yield or to     *)
(* the break of an except branch.                                           *)

\* the long series the emitter replays, by shape
Shapes == {"rising", "falling", "flat", "spike", "cheap", "whipsaw", "ledge"}

ShapeClose(shape, i) ==
    CASE shape = "rising" -> 3000 + 50 * i
      [] shape = "falling" -> 5000 - 50 * i
      [] shape = "flat" -> 3000
      [] shape = "spike" -> IF i <= 15 THEN 3000 ELSE IF i <= 20 THEN 4000 ELSE 100
      [] shape = "cheap" -> 10 + i
      \* falls from row 20 on, while old extreme rows leave the long window
      [] shape = "whipsaw" -> IF i = 1 THEN 10
                              ELSE IF i = 2 THEN 10000
                              ELSE IF i <= 15 THEN 100
                              ELSE IF i = 16 THEN 5000
                              ELSE IF i <= 20 THEN 1000
                              ELSE 1000 - 10 * (i - 20)
      \* two low rows, then a slow fall from row 3 on
      [] shape = "ledge" -> IF i <= 2 THEN 10 ELSE 1003 - i

RunFirstDays == {343, 363}

RunSeries ==
    {SeriesOf(f, [i \in 1..n |-> ShapeClose(sh, i)]) :
        f \in RunFirstDays, sh \in Shapes, n \in 0..RunLen}

Init ==
    /\ data \in RunSeries
    /\ index \in 0..RunLen
    /\ window_size \in WindowSizes
    /\ InitCommon

append_to_dataframe_front(df, timestamp, prediction_value) ==
    <<Row(timestamp, prediction_value)>> \o df

\* pd.concat([df, new_row]): the new row goes last
append_to_dataframe(df, timestamp, prediction_value) ==
    Append(df, Row(timestamp, prediction_value))

EmitterExit(raised) == IF raised = "StopIteration" THEN "stop" ELSE "error"

\* next() on a generator that has already returned
PullFinished ==
    /\ system.data_stream_gen
    /\ gen.state = "finished"
    /\ call' = Call("next", <<>>, [raised |-> "StopIteration"])
    /\ UNCHANGED <<config, system, impl, data, index, window_size, strategy,
                   mean_5_prdt_data, mean_20_prdt_data, gen>>

\* the cursor raises: the loop leaves through an except branch
PullExhausted ==
    /\ system.data_stream_gen
    /\ gen.state = "suspended"
    /\ LET r == iter_next_org_datas(data, index) IN
       /\ r.raised # "None"
       /\ index' = r.index
       /\ gen' = [gen EXCEPT !.state = "finished",
                             !.exit = EmitterExit(r.raised),
                             !.summaries = IF r.raised = "StopIteration"
                                           THEN @ + 1 ELSE @]
       /\ call' = Call("next", <<>>, [raised |-> "StopIteration"])
    /\ UNCHANGED <<config, system, impl, data, window_size, strategy,
                   mean_5_prdt_data, mean_20_prdt_data>>

\* the cursor advances: strategy step, predictions, buffers, strategy_info
PullStep ==
    /\ system.data_stream_gen
    /\ gen.state = "suspended"
    /\ LET r == iter_next_org_datas(data, index) IN
       /\ r.raised = "None"
       /\ LET timestamp == r.timestamp
              iter_org_data == r.next_org_datas
              s1 == execute_strategy(strategy, iter_org_data,
                                     EmitShortWindow, EmitLongWindow, timestamp)
              pred_5_value == predict_price(iter_org_data, EmitShortWindow)
              pred_20_value == predict_price(iter_org_data, EmitLongWindow)
              m5 == Tail_(append_to_dataframe(mean_5_prdt_data, timestamp,
                                              pred_5_value), window_size)
              m20 == Tail_(append_to_dataframe(mean_20_prdt_data, timestamp,
                                               pred_20_value), window_size)
              current_price == IF Len(iter_org_data) > 0
                               THEN Last_(iter_org_data).Close ELSE 0
              g == get_profit_info(s1, current_price)
          IN /\ index' = r.index
             /\ strategy' = g.self
             /\ mean_5_prdt_data' = m5
             /\ mean_20_prdt_data' = m20
             /\ IF g.raised = "None"
                THEN /\ gen' = [gen EXCEPT !.emitted = @ + 1]
                     /\ call' = Call("next", <<>>,
                                     [raised |-> "None",
                                      timestamp |-> timestamp,
                                      data_stream |-> <<iter_org_data, m5, m20>>,
                                      strategy_info |-> g.ret,
                                      step |-> StepInfo(strategy, iter_org_data,
                                                  EmitShortWindow, EmitLongWindow)])
                ELSE /\ gen' = [gen EXCEPT !.state = "finished",
                                           !.exit = EmitterExit(g.raised)]
                     /\ call' = Call("next", <<>>, [raised |-> "StopIteration"])
    /\ UNCHANGED <<config, system, impl, data, window_size>>

Next == PullStep \/ PullExhausted \/ PullFinished

Spec == Init /\ [][Next]_vars

-----------------------------------------------------------------------------
(* StockPredictionSystem (src/core/system.py): the lifecycle calls in any   *)
(* order, run(), and the pulls on the emitter it has created.  The methods  *)
(* act on the world w: the system object and the components it owns.  data  *)
(* holds the rows of the input file, which are DataGenerator.data once the  *)
(* file has been read.  A component is replaced only while no emitter is    *)
(* bound to it, or by run(), which replaces them all.                       *)

DefaultInitIndex == 1000

Files == {"ok", "missing", "unreadable"}
FileRows == {1001, 1003}
FileShapes == {"cheap", "flat"}

FileSeries ==
    {SeriesOf(f, [i \in 1..n |-> ShapeClose(sh, i)]) :
        f \in FirstDays, sh \in FileShapes, n \in FileRows}

StockPredictionSystem_init(file) ==
    [file |-> file,
     data_generator |-> FALSE,
     strategy |-> FALSE,
     animation |-> "None",
     data_stream_gen |-> FALSE]

\* a generator object that has not been advanced yet
NewGenerator(i) ==
    [state |-> "suspended", emitted |-> 0, exit |-> "None", summaries |-> 0,
     first_index |-> i]

World ==
    [system |-> system, index |-> index, strategy |-> strategy, gen |-> gen,
     mean_5_prdt_data |-> mean_5_prdt_data,
     mean_20_prdt_data |-> mean_20_prdt_data]

\* DataGenerator(path=...) reads the file; any exception becomes DataError
\* before self.data_generator is assigned
initialize_data_generator_lenient(w) ==
    [w |-> [w EXCEPT !.system.data_generator = TRUE, !.index = DefaultInitIndex],
     raised |-> "None"]

initialize_data_generator(w) ==
    IF w.system.file = "ok"
    THEN [w |-> [w EXCEPT !.system.data_generator = TRUE,
                          !.index = DefaultInitIndex],
          raised |-> "None"]
    ELSE [w |-> w, raised |-> "DataError"]

create_strategy(w) ==
    [w |-> [w EXCEPT !.system.strategy = TRUE,
                     !.strategy = BaseStrategy_init_core],
     raised |-> "None"]

create_animation_object(w) ==
    [w |-> [w EXCEPT !.system.animation = "created"], raised |-> "None"]

create_data_stream_generator_nocheck(w) ==
    [w |-> [w EXCEPT !.system.data_stream_gen = TRUE,
                     !.gen = NewGenerator(w.index),
                     !.mean_5_prdt_data = <<>>,
                     !.mean_20_prdt_data = <<>>],
     raised |-> "None"]

create_data_stream_generator(w) ==
    IF ~w.system.data_generator \/ ~w.system.strategy
    THEN [w |-> w, raised |-> "StockPredictionError"]
    ELSE [w |-> [w EXCEPT !.system.data_stream_gen = TRUE,
                          !.gen = NewGenerator(w.index),
                          !.mean_5_prdt_data = <<>>,
                          !.mean_20_prdt_data = <<>>],
          raised |-> "None"]

\* self.animation becomes the FuncAnimation, which has no create_animation:
\* a second start fails inside the try and is re-raised as AnimationError
start_animation(w) ==
    IF w.system.animation = "created"
    THEN [w |-> [w EXCEPT !.system.animation = "started"], raised |-> "None"]
    ELSE [w |-> w, raised |-> "AnimationError"]

\* run(): the five calls in order; the first exception ends it, wrapped in
\* StockPredictionError
run(w) ==
    LET r1 == initialize_data_generator(w)
        r2 == create_strategy(r1.w)
        r3 == create_animation_object(r2.w)
        r4 == create_data_stream_generator(r3.w)
        r5 == start_animation(r4.w)
        failed(r) == [w |-> r.w, raised |-> "StockPredictionError"]
    IN IF r1.raised # "None" THEN failed(r1)
       ELSE IF r2.raised # "None" THEN failed(r2)
       ELSE IF r3.raised # "None" THEN failed(r3)
       ELSE IF r4.raised # "None" THEN failed(r4)
       ELSE IF r5.raised # "None" THEN failed(r5)
       ELSE r5

\* the record of a lifecycle call: as Call, with the system and the emitter
\* before it
SystemCall(op, raised) ==
    [op |-> op, args |-> <<>>, pre |-> strategy, pre_index |-> index,
     pre_system |-> system, pre_gen |-> gen, ret |-> [raised |-> raised]]

Apply(op, r) ==
    /\ system' = r.w.system
    /\ index' = r.w.index
    /\ strategy' = r.w.strategy
    /\ gen' = r.w.gen
    /\ mean_5_prdt_data' = r.w.mean_5_prdt_data
    /\ mean_20_prdt_data' = r.w.mean_20_prdt_data
    /\ call' = SystemCall(op, r.raised)
    /\ UNCHANGED <<config, impl, data, window_size>>

InitSystem ==
    /\ impl = "core"
    /\ system \in {StockPredictionSystem_init(f) : f \in Files}
    /\ data \in (IF system.file = "ok" THEN FileSeries ELSE {<<>>})
    /\ index = 0
    /\ window_size \in WindowSizes
    /\ strategy = BaseStrategy_init(impl)
    /\ mean_5_prdt_data = <<>>
    /\ mean_20_prdt_data = <<>>
    /\ gen = NewGenerator(0)
    /\ call = NoCall
    /\ config = Imported(EmptyEnv)

InitializeDataGenerator ==
    /\ ~system.data_stream_gen
    /\ Apply("initialize_data_generator", initialize_data_generator(World))

CreateStrategy ==
    /\ ~system.data_stream_gen
    /\ Apply("create_strategy", create_strategy(World))

CreateAnimationObject ==
    /\ system.animation # "started"
    /\ Apply("create_animation_object", create_animation_object(World))

CreateDataStreamGenerator ==
    Apply("create_data_stream_generator", create_data_stream_generator(World))

StartAnimation == Apply("start_animation", start_animation(World))

Run == Apply("run", run(World))

NextSystem ==
    \/ InitializeDataGenerator
    \/ CreateStrategy
    \/ CreateAnimationObject
    \/ CreateDataStreamGenerator
    \/ StartAnimation
    \/ Run
    \/ PullStep
    \/ PullExhausted
    \/ PullFinished

SpecSystem == InitSystem /\ [][NextSystem]_vars

-----------------------------------------------------------------------------
(* Config objects built, loaded into and read in any order, in one process  *)
(* that has imported src/config.py                                          *)

MaxConfigs == 2

Envs ==
    {EmptyEnv,
     [ANIMATION_INTERVAL |-> "10"],
     [ANIMATION_INTERVAL |-> "fast"],
     [STOCK_CSV_PATH |-> "other.csv", WINDOW_SIZE |-> "30"],
     [ENABLE_PERFORMANCE_MONITORING |-> "No"]}

FileContents ==
    {[malformed |-> TRUE],
     [json |-> << <<"animation", Dict([interval |-> Number(10)])>> >>],
     [json |-> << <<"data", Str("inline")>> >>],
     [json |-> << <<"extra", Dict([k |-> Number(1)])>>,
                  <<"strategy", Dict([short_window |-> Number(10)])>> >>]}

ConfigFiles ==
    {[exists |-> FALSE, content |-> [malformed |-> TRUE]]}
        \cup {[exists |-> TRUE, content |-> c] : c \in FileContents}

ConfigFileArgs == {None} \cup {Some(f) : f \in ConfigFiles}

\* the reads made of a Config: <<section, key, default>>
Queries ==
    {<<"data", Some("csv_path"), NoneValue>>,
     <<"data", Some("window_size"), NoneValue>>,
     <<"animation", Some("interval"), NoneValue>>,
     <<"data", None, NoneValue>>,
     <<"data", Some("missing_key"), Str("default")>>,
     <<"non_existent", Some("key"), Str("default")>>}

ObjectAt(i) ==
    [DEFAULT_CONFIG |-> config.DEFAULT_CONFIG, config |-> config.objects[i].config]

ConfigFrame ==
    UNCHANGED <<impl, data, index, window_size, strategy,
                mean_5_prdt_data, mean_20_prdt_data, gen, system>>

InitConfig ==
    /\ data = <<>>
    /\ index = 0
    /\ window_size = DefaultWindowSize
    /\ impl = "core"
    /\ strategy = BaseStrategy_init(impl)
    /\ mean_5_prdt_data = <<>>
    /\ mean_20_prdt_data = <<>>
    /\ gen = NewGenerator(0)
    /\ call = NoCall
    /\ system = Assembled
    /\ config = Imported(EmptyEnv)

\* Config(config_file) with the environment env
NewConfig(config_file, env) ==
    /\ Len(config.objects) < MaxConfigs
    /\ LET r == Config_init(config.DEFAULT_CONFIG, config_file, env)
       IN /\ config' = [DEFAULT_CONFIG |-> r.DEFAULT_CONFIG,
                        objects |-> IF r.raised = "None"
                                    THEN Append(config.objects,
                                                ConfigObject(r.config, config_file, env))
                                    ELSE config.objects]
          /\ call' = [op |-> "Config", args |-> <<config_file, env>>,
                      ret |-> [raised |-> r.raised]]
    /\ ConfigFrame

LoadFromFile(i, config_file) ==
    /\ LET r == load_from_file(ObjectAt(i), config_file)
       IN /\ config' = [DEFAULT_CONFIG |-> r.DEFAULT_CONFIG,
                        objects |-> [config.objects EXCEPT
                                        ![i] = [config |-> r.config, plain |-> FALSE]]]
          /\ call' = [op |-> "load_from_file", args |-> <<i, config_file>>,
                      ret |-> [raised |-> r.raised]]
    /\ ConfigFrame

LoadFromEnv(i, env) ==
    /\ LET r == load_from_env(ObjectAt(i), env)
       IN /\ config' = [DEFAULT_CONFIG |-> r.DEFAULT_CONFIG,
                        objects |-> [config.objects EXCEPT
                                        ![i] = [config |-> r.config,
                                                plain |-> @.plain /\ env = EmptyEnv]]]
          /\ call' = [op |-> "load_from_env", args |-> <<i, env>>,
                      ret |-> [raised |-> r.raised]]
    /\ ConfigFrame

Get(i, q) ==
    /\ call' = [op |-> "get", args |-> <<i, q[1], q[2], q[3]>>,
                ret |-> Config_get(ObjectAt(i), q[1], q[2], q[3])]
    /\ UNCHANGED config
    /\ ConfigFrame

ToDict(i) ==
    /\ call' = [op |-> "to_dict", args |-> <<i>>,
                ret |-> [value |-> Dict(to_dict(ObjectAt(i))), raised |-> "None"]]
    /\ UNCHANGED config
    /\ ConfigFrame

NextConfig ==
    \/ \E config_file \in ConfigFileArgs, env \in Envs : NewConfig(config_file, env)
    \/ \E i \in 1..Len(config.objects), config_file \in ConfigFiles :
          LoadFromFile(i, config_file)
    \/ \E i \in 1..Len(config.objects), env \in Envs : LoadFromEnv(i, env)
    \/ \E i \in 1..Len(config.objects), q \in Queries : Get(i, q)
    \/ \E i \in 1..Len(config.objects) : ToDict(i)

SpecConfig == InitConfig /\ [][NextConfig]_vars

-----------------------------------------------------------------------------
(* Properties *)

IsAdvance == call.op = "iter_next_org_datas"
IsBuy == call.op = "execute_buy"
IsSell == call.op = "execute_sell"
IsStep == call.op = "execute_strategy"

\* C1: an advance made at a position p < len(series) - 1 returns the timestamp
\* of row p and exactly the rows 0..p-1 as history (p of them), and leaves the
\* position at p + 1.
C1_AdvanceReturnsHistoryBefore ==
    (IsAdvance /\ call.pre_index < Len(data) - 1) =>
        /\ call.ret.raised = "None"
        /\ call.ret.timestamp = data[call.pre_index + 1].Date
        /\ call.ret.next_org_datas = SubSeq(data, 1, call.pre_index)
        /\ Len(call.ret.next_org_datas) = call.pre_index
        /\ index = call.pre_index + 1

C1_Witness ==
    /\ IsAdvance
    /\ call.pre_index < Len(data) - 1
    /\ call.pre_index > 0
    /\ call.ret.raised = "None"

C3_BuyContract ==
    IsBuy =>
        LET price == call.args[1]
            quantity == call.args[2]
        IN IF price * quantity <= call.pre.balance
           THEN /\ strategy.balance = call.pre.balance - price * quantity
                /\ strategy.share_num = call.pre.share_num + quantity
                /\ strategy.trade_count = call.pre.trade_count + 1
           ELSE /\ strategy.balance = call.pre.balance
                /\ strategy.share_num = call.pre.share_num
                /\ strategy.trade_count = call.pre.trade_count

C3_Witness ==
    /\ IsBuy
    /\ call.args[1] * call.args[2] > call.pre.balance
    /\ call.pre.trade_count > 0

\* C4: execute_sell(price, quantity) with quantity <= shares_held adds the
\* revenue to cash, takes quantity from shares_held and adds 1 to trade_count;
\* with quantity > shares_held it leaves all three as they were.
C4_SellContract ==
    IsSell =>
        LET price == call.args[1]
            quantity == call.args[2]
        IN IF quantity <= call.pre.share_num
           THEN /\ strategy.balance = call.pre.balance + price * quantity
                /\ strategy.share_num = call.pre.share_num - quantity
                /\ strategy.trade_count = call.pre.trade_count + 1
           ELSE /\ strategy.balance = call.pre.balance
                /\ strategy.share_num = call.pre.share_num
                /\ strategy.trade_count = call.pre.trade_count

\* C5: after any sequence of buys, sells and strategy steps the portfolio holds
\* no short position and has not overdrawn its cash.
C5_NoShortNoOverdraw ==
    /\ strategy.share_num >= 0
    /\ strategy.balance >= 0

\* C6: a buy with price * quantity <= cash directly followed by a sell of the
\* same quantity at the same price leaves cash and shares_held as they were
\* before the buy and trade_count larger by 2.
C6_BuySellRoundTrip ==
    (IsSell /\ ~IsNone(call.ret.buy_before)) =>
        LET before == Val(call.ret.buy_before) IN
        (call.args[1] * call.args[2] <= before.balance) =>
            /\ strategy.balance = before.balance
            /\ strategy.share_num = before.share_num
            /\ strategy.trade_count = before.trade_count + 2

C6_Witness ==
    /\ IsSell
    /\ ~IsNone(call.ret.buy_before)
    /\ call.args[1] * call.args[2] <= Val(call.ret.buy_before).balance
    /\ call.args[2] # LotSize
    /\ strategy.trade_count = Val(call.ret.buy_before).trade_count + 2

\* a step had the history its long window asks for
EnoughHistory == IsStep /\ call.ret.len >= call.args[3]

Bought == strategy.share_num = call.pre.share_num + LotSize
Sold == strategy.share_num = call.pre.share_num - LotSize
NoTrade ==
    /\ strategy.balance = call.pre.balance
    /\ strategy.share_num = call.pre.share_num
    /\ strategy.trade_count = call.pre.trade_count

\* C7: in a step with enough history one lot is bought iff short_ma > long_ma
\* and cash >= price * 100; otherwise one lot is sold iff short_ma < long_ma and
\* shares_held >= 100; otherwise nothing is traded; should_buy and should_sell
\* are true exactly under those two conditions; trade_count moves by at most 1.
C7_DecisionRule ==
    EnoughHistory =>
        LET r == call.ret
            buy_condition == /\ Gt(r.short_ma, r.long_ma)
                             /\ call.pre.balance >= r.current_price * LotSize
            sell_condition == /\ Lt(r.short_ma, r.long_ma)
                              /\ call.pre.share_num >= LotSize
        IN /\ r.should_buy = buy_condition
           /\ r.should_sell = sell_condition
           /\ (Bought <=> buy_condition)
           /\ (Sold <=> (~buy_condition /\ sell_condition))
           /\ (NoTrade <=> (~buy_condition /\ ~sell_condition))
           /\ strategy.trade_count - call.pre.trade_count \in {0, 1}

\* C8: a step on which short_ma = long_ma trades nothing: cash, shares_held and
\* trade_count are after the step what they were before it.
C8_TieMeansNoTrade ==
    (IsStep /\ call.ret.len > 0 /\ Eq(call.ret.short_ma, call.ret.long_ma)) => NoTrade

C8_Witness ==
    /\ EnoughHistory
    /\ Eq(call.ret.short_ma, call.ret.long_ma)
    /\ call.pre.share_num >= LotSize
    /\ call.pre.balance >= call.ret.current_price * LotSize
    /\ NoTrade

\* C9: a step whose history is shorter than long_window changes nothing: no
\* trade and no settlement, so cash, shares_held, trade_count, start_date, the
\* stored profit figures and every period record stay as they were.
C9_ShortHistoryChangesNothing ==
    (IsStep /\ call.ret.len < call.args[3]) =>
        /\ NoTrade
        /\ strategy.start_date = call.pre.start_date
        /\ StoredProfit(strategy) = StoredProfit(call.pre)
        /\ strategy.fiscal_year_data = call.pre.fiscal_year_data

\* C10: the emitter yields one snapshot per successful advance and ends only
\* when the cursor is exhausted, so a run from offset o <= len(series) - 1
\* yields len(series) - 1 - o snapshots.
C10_OneSnapshotPerAdvance ==
    /\ index = gen.first_index + gen.emitted
    /\ (gen.state = "finished" /\ gen.first_index <= Len(data) - 1) =>
           gen.emitted = Len(data) - 1 - gen.first_index

IsPull == call.op = "next"
IsSnapshot == IsPull /\ call.ret.raised = "None"

\* C11: when the cursor signals exhaustion the emitter ends through its
\* normal-termination path, not its error path, and reports the final summary
\* exactly once; every later pull yields no snapshot and changes neither the
\* cursor position nor the portfolio state.
C11_ExhaustionEndsNormally ==
    [][/\ (/\ call'.op = "next"
           /\ gen.state = "suspended"
           /\ iter_next_org_datas(data, index).raised # "None") =>
              /\ gen'.state = "finished"
              /\ gen'.exit = "stop"
              /\ gen'.summaries = gen.summaries + 1
       /\ (call'.op = "next" /\ gen.state = "finished") =>
              /\ call'.ret.raised = "StopIteration"
              /\ "timestamp" \notin DOMAIN call'.ret
              /\ index' = index
              /\ strategy' = strategy
              /\ gen' = gen]_vars

\* the values a later row could have had
PerturbPrices == {1, 9000}

\* the series d with another value in every row at position p or later
\* (positions count from 0, as the cursor does)
Perturbed(d, p) ==
    {[i \in 1..Len(d) |-> IF i > p THEN Row(d[i].Date, v) ELSE d[i]] :
        v \in PerturbPrices}

\* C12: the step that carries the timestamp of position p uses only the rows
\* at positions below p: its history is exactly those rows, its current_price
\* is the value of row p - 1, and its trade decision, predictions and reported
\* metrics are the same whatever the values of row p and of the later rows are.
C12_NoLookAhead ==
    IsSnapshot =>
        LET p == call.pre_index IN
        /\ call.ret.timestamp = data[p + 1].Date
        /\ call.ret.data_stream[1] = SubSeq(data, 1, p)
        /\ call.ret.strategy_info.current_price = (IF p > 0 THEN data[p].Close ELSE 0)
        /\ \A d2 \in Perturbed(data, p) :
              LET r2 == iter_next_org_datas(d2, p)
                  h2 == r2.next_org_datas
                  s2 == execute_strategy(call.pre, h2, EmitShortWindow,
                                         EmitLongWindow, r2.timestamp)
                  g2 == get_profit_info(s2, IF Len(h2) > 0 THEN Last_(h2).Close ELSE 0)
              IN /\ strategy = g2.self
                 /\ call.ret.strategy_info = g2.ret
                 /\ Last_(mean_5_prdt_data) =
                        Row(r2.timestamp, predict_price(h2, EmitShortWindow))
                 /\ Last_(mean_20_prdt_data) =
                        Row(r2.timestamp, predict_price(h2, EmitLongWindow))

C12_Witness ==
    /\ IsSnapshot
    /\ call.pre_index >= EmitLongWindow
    /\ strategy.share_num = call.pre.share_num + LotSize
    /\ data[call.pre_index + 1].Close # data[call.pre_index].Close
    /\ index < Len(data)

\* both dates of the overall annualization are set
Dated(self) == ~IsNone(self.start_date) /\ ~IsNone(self.current_date)

\* C13: the overall annualized return stored at settlement is exactly 0 when
\* the current date is on or before start_date, and otherwise is
\* (profit / initial_cash) / days_elapsed * 365 * 100, a percentage.
C13_AnnualizedReturnPercent ==
    Dated(strategy) =>
        LET total_profit == StoredProfit(strategy)[1]
            annualized_return == StoredProfit(strategy)[2]
            days_elapsed == Val(strategy.current_date) - Val(strategy.start_date)
        IN annualized_return =
               IF days_elapsed <= 0 THEN ZeroRate
               ELSE Rate(total_profit, InitialBalance, DaysPerYear * 100, days_elapsed)

\* the claimed period return of a record that started with start_balance,
\* now stands at end_balance, and spans days_elapsed days
PeriodReturn(start_balance, end_balance, days_elapsed) ==
    IF start_balance = 0 \/ days_elapsed <= 0 THEN ZeroRate
    ELSE Rate(end_balance - start_balance, start_balance,
              DaysPerYear * 100, days_elapsed)

\* C14: calculate_fiscal_year_return is 0 for a period without a record, for a
\* start balance of 0 and for days elapsed <= 0 between the record's start and
\* end dates, and otherwise ((end_balance - start_balance) / start_balance)
\* / days_elapsed * 365 * 100.  The record of src/core keeps no end date, so
\* there any end date among those passed to the calculator is accepted.
C14_PeriodReturnAnnualized ==
    call.op = "calculate_fiscal_year_return" =>
        LET fyd == strategy.fiscal_year_data
            fiscal_year == call.args[1]
        IN IF ~DictHas(fyd, fiscal_year) THEN call.ret.value = ZeroRate
           ELSE LET rec == DictGet(fyd, fiscal_year) IN
                IF impl = "base"
                THEN call.ret.value =
                         PeriodReturn(rec.start_balance, rec.end_balance,
                                      rec.end_date - rec.start_date)
                ELSE \E end_date \in FiscalDates :
                         call.ret.value =
                             PeriodReturn(rec.initial_balance, rec.current_balance,
                                          end_date - rec.start_date)

\* C15: get_all_fiscal_year_returns has exactly one entry per period that has a
\* record, each value the period's calculate_fiscal_year_return, and its
\* entries are in ascending order of the period key whatever the order in
\* which the periods were initialized.
C15_AllReturnsSortedByPeriod ==
    call.op = "get_all_fiscal_year_returns" =>
        LET fyd == strategy.fiscal_year_data
            returns == call.ret.value
        IN /\ Len(returns) = Len(fyd)
           /\ {returns[i][1] : i \in 1..Len(returns)} =
                  {fyd[i][1] : i \in 1..Len(fyd)}
           /\ \A i \in 1..Len(returns) :
                  returns[i][2] = calculate_fiscal_year_return(fyd, returns[i][1])
           /\ \A i, j \in 1..Len(returns) : i < j => returns[i][1] < returns[j][1]

\* C16: after every emitter step each prediction buffer holds
\* min(steps emitted so far, window_size) entries: one (timestamp, prediction)
\* entry per step, the most recent steps only, oldest first.
C16_PredictionBuffersCapped ==
    IsSnapshot =>
        LET n == Min(gen.emitted, window_size)
            \* entry j is that of the step which left the cursor at index - n + j
            Entry(j, horizon) ==
                LET q == index - n + j IN
                Row(data[q].Date, predict_price(Head_(data, q - 1), horizon))
        IN /\ Len(mean_5_prdt_data) = n
           /\ Len(mean_20_prdt_data) = n
           /\ \A j \in 1..n :
                  /\ mean_5_prdt_data[j] = Entry(j, EmitShortWindow)
                  /\ mean_20_prdt_data[j] = Entry(j, EmitLongWindow)
           /\ call.ret.data_stream[2] = mean_5_prdt_data
           /\ call.ret.data_stream[3] = mean_20_prdt_data

C16_Witness ==
    /\ IsSnapshot
    /\ window_size > 1
    /\ gen.emitted > window_size
    /\ Len(mean_5_prdt_data) = window_size
    /\ mean_5_prdt_data[1].Close # mean_5_prdt_data[2].Close

\* every row of the series is above the row before it
Rising(d) == \A i \in 1..(Len(d) - 1) : d[i].Close < d[i + 1].Close

\* C17: on a strictly increasing series, with windows 5 and 20 and lots of 100,
\* a step whose history has fewer than 20 rows trades nothing, the step whose
\* history has 20 rows executes the first buy, every later step buys one lot
\* while cash >= price * 100, and the total_profit of successive steps never
\* decreases.
C17_RisingSeriesBuys ==
    (IsSnapshot /\ Rising(data)) =>
        LET len == call.pre_index
            price == data[len].Close
            affordable == call.pre.balance >= price * LotSize
            bought == /\ strategy.balance = call.pre.balance - price * LotSize
                      /\ strategy.share_num = call.pre.share_num + LotSize
                      /\ strategy.trade_count = call.pre.trade_count + 1
        IN /\ len < EmitLongWindow => NoTrade
           /\ len = EmitLongWindow => call.pre.trade_count = 0
           /\ (len >= EmitLongWindow /\ affordable) => bought
           /\ StoredProfit(strategy)[1] >= StoredProfit(call.pre)[1]

C17_Witness ==
    /\ IsSnapshot
    /\ Rising(data)
    /\ call.pre_index > EmitLongWindow
    /\ call.pre.share_num >= LotSize
    /\ strategy.share_num = call.pre.share_num + LotSize
    /\ StoredProfit(strategy)[1] > StoredProfit(call.pre)[1]

\* the rows from row t on (rows count from 1) fall strictly
FallingFrom(d, t) == \A i \in t..(Len(d) - 1) : d[i].Close > d[i + 1].Close

\* the series falls from the row of the first possible trade on, so whenever
\* shares are held the series is strictly decreasing from then on
Downtrend == FallingFrom(data, EmitLongWindow)

\* the step sold exactly one lot
SoldOneLot ==
    /\ strategy.share_num = call.pre.share_num - LotSize
    /\ strategy.balance = call.pre.balance + call.ret.step.current_price * LotSize
    /\ strategy.trade_count = call.pre.trade_count + 1

\* C18: if shares are held and the series is strictly decreasing from then on,
\* one lot is sold on each step where short_ma < long_ma until shares_held is
\* exactly 0, and once shares_held is 0 no further sell is executed while the
\* series keeps decreasing: shares_held becomes 0 and stays 0.
C18_SellsDownToZeroAndStays ==
    (IsSnapshot /\ Downtrend /\ call.pre_index >= EmitLongWindow) =>
        LET step == call.ret.step IN
        /\ (call.pre.share_num > 0 /\ Lt(step.short_ma, step.long_ma)) => SoldOneLot
        /\ (call.pre.share_num = 0 /\ call.pre.trade_count > 0) =>
               strategy.share_num = 0
        /\ strategy.share_num >= 0

\* the 20 rows of the long window of the step all lie in a falling stretch
WindowFalls ==
    \A i \in (call.pre_index - EmitLongWindow + 1)..(call.pre_index - 1) :
        data[i].Close > data[i + 1].Close

\* C18 as amended: under the same precondition one lot is sold on each step
\* where short_ma < long_ma and at least one lot is held; shares_held never
\* goes below 0; a step that starts with shares_held = 0 sells nothing, and
\* leaves shares_held at 0 unless short_ma > long_ma, in which case it buys;
\* on every step whose whole long window is falling short_ma < long_ma, so
\* from there on a lot is sold per step until shares_held is 0 and it stays 0.
C18_SellsDownToZero ==
    (IsSnapshot /\ Downtrend /\ call.pre_index >= EmitLongWindow) =>
        LET step == call.ret.step IN
        /\ (call.pre.share_num >= LotSize /\ Lt(step.short_ma, step.long_ma)) =>
               SoldOneLot
        /\ call.pre.share_num = 0 =>
               /\ strategy.share_num \in {0, LotSize}
               /\ strategy.balance <= call.pre.balance
               /\ ~Gt(step.short_ma, step.long_ma) => NoTrade
        /\ strategy.share_num >= 0
        /\ WindowFalls => Lt(step.short_ma, step.long_ma)

C18_Witness ==
    /\ IsSnapshot
    /\ Downtrend
    /\ call.pre_index >= EmitLongWindow
    /\ WindowFalls
    /\ call.pre.share_num = LotSize
    /\ call.pre.trade_count > 2
    /\ strategy.share_num = 0


IsSystemCall(op) == call.op = op

Untouched ==
    /\ system = call.pre_system
    /\ strategy = call.pre
    /\ index = call.pre_index
    /\ gen = call.pre_gen

\* C19: when the input file is missing or cannot be read, loading it raises
\* DataError and leaves the system without a data generator; run() on such a
\* file ends with StockPredictionError, and that run makes no strategy step,
\* emits no snapshot and starts no animation.
C19_UnreadableFileStopsRun ==
    /\ (IsSystemCall("initialize_data_generator") /\ call.pre_system.file # "ok")
          => /\ call.ret.raised = "DataError"
             /\ Untouched
             /\ ~system.data_generator
    /\ (IsSystemCall("run") /\ call.pre_system.file # "ok")
          => /\ call.ret.raised = "StockPredictionError"
             /\ Untouched
             /\ system.animation = call.pre_system.animation
             /\ ~system.data_stream_gen
    /\ system.file # "ok"
          => /\ ~IsPull
             /\ gen.emitted = 0
             /\ strategy.trade_count = 0

C19_Witness ==
    /\ IsSystemCall("run")
    /\ system.file = "missing"
    /\ call.ret.raised = "StockPredictionError"
    /\ call.pre_system.strategy
    /\ call.pre_system.animation = "created"
    /\ system.animation = "created"

\* C20: a newly constructed system has no data generator, strategy or
\* animation.  create_data_stream_generator raises StockPredictionError
\* unless both the data generator and the strategy exist, start_animation
\* raises AnimationError unless the animation object exists, and a snapshot
\* stream exists only when the cursor and the strategy both exist.
C20_LifecycleOrderEnforced ==
    /\ call = NoCall
          => /\ ~system.data_generator
             /\ ~system.strategy
             /\ system.animation = "None"
             /\ ~system.data_stream_gen
    /\ IsSystemCall("create_data_stream_generator")
          => /\ (call.ret.raised = "StockPredictionError")
                    <=> ~(call.pre_system.data_generator /\ call.pre_system.strategy)
             /\ call.ret.raised \in {"None", "StockPredictionError"}
             /\ call.ret.raised # "None" => Untouched
    /\ (IsSystemCall("start_animation") /\ call.pre_system.animation = "None")
          => /\ call.ret.raised = "AnimationError"
             /\ Untouched
    /\ system.data_stream_gen => (system.data_generator /\ system.strategy)
    /\ IsPull => (system.data_generator /\ system.strategy)

C20_Witness ==
    /\ IsSystemCall("create_data_stream_generator")
    /\ call.pre_system.data_generator
    /\ ~call.pre_system.strategy
    /\ call.ret.raised = "StockPredictionError"
    /\ ~system.data_stream_gen


IsGet(section, key) ==
    /\ call.op = "get"
    /\ call.args[2] = section
    /\ call.args[3] = key

\* C21: a Config built with no config file and no override in the
\* environment returns the documented defaults: data/csv_path is
\* 'nvda_hist.csv', data/window_size is 50 and animation/interval is 10;
\* get on a section that does not exist returns the supplied default, and
\* get(section) with no key returns the whole dictionary of the section.
C21_DocumentedDefaults ==
    (call.op = "get" /\ config.objects[call.args[1]].plain)
        => /\ call.ret.raised = "None"
           /\ IsGet("data", Some("csv_path")) => call.ret.value = Str("nvda_hist.csv")
           /\ IsGet("data", Some("window_size")) => call.ret.value = Number(50)
           /\ IsGet("animation", Some("interval")) => call.ret.value = Number(10)
           /\ call.args[2] \notin DOMAIN DEFAULT_CONFIG => call.ret.value = call.args[4]
           /\ IsGet("data", None) => call.ret.value = Dict(DEFAULT_CONFIG.data)


\* C30: Config objects are isolated from the class defaults and from each
\* other: whatever load_from_file or load_from_env has changed in one
\* object, Config.DEFAULT_CONFIG is unchanged and a Config built with no
\* file and no override in the environment still returns the original
\* default values.
C30_ConfigObjectsIsolated ==
    /\ config.DEFAULT_CONFIG = DEFAULT_CONFIG
    /\ \A i \in 1..Len(config.objects) :
          config.objects[i].plain
              => to_dict(ObjectAt(i)) = [s \in DOMAIN DEFAULT_CONFIG |-> Dict(DEFAULT_CONFIG[s])]


\* C22: in a run driven by execute_strategy the rejection branch of the
\* ledger is never reached: every buy the strategy attempts is made with
\* cash >= price * 100 and every sell with at least 100 shares held.
C22_RejectionNeverReached ==
    (IsSnapshot /\ call.ret.step.len > 0)
        => /\ call.ret.step.should_buy
                 => call.pre.balance >= call.ret.step.current_price * LotSize
           /\ (~call.ret.step.should_buy /\ call.ret.step.should_sell)
                 => call.pre.share_num >= LotSize


\* a direct execute_strategy call whose history has at least long_window rows
IsFullStep ==
    /\ call.op = "execute_strategy"
    /\ call.args[1] >= call.args[3]

\* the record of the period the step's timestamp falls in
StepPeriod == DictGet(strategy.fiscal_year_data, get_fiscal_year(call.args[4]))

\* C23: after every execute_strategy step whose history has at least
\* long_window rows, trade or no trade, the stored total equity is
\* cash + shares_held * price with the cash and shares after the trade, the
\* stored profit is that equity minus the initial cash, and the record of
\* the current period holds that equity as its end balance together with
\* the ledger's trade_count.
C23_SettledAfterEveryStep ==
    IsFullStep =>
        LET equity == strategy.balance + strategy.share_num * call.ret.current_price
        IN /\ DictHas(strategy.fiscal_year_data, get_fiscal_year(call.args[4]))
           /\ StoredProfit(strategy)[1] = equity - InitialBalance
           /\ IF impl = "core"
              THEN /\ strategy.profit_info.current_total = equity
                   /\ StepPeriod.current_balance = equity
                   /\ StepPeriod.trade_count = strategy.trade_count
              ELSE /\ StepPeriod.end_balance = equity
                   /\ StepPeriod.trades = strategy.trade_count

C23_Witness ==
    /\ IsFullStep
    /\ strategy.trade_count = call.pre.trade_count + 1
    /\ call.pre.trade_count > 0
    /\ strategy.share_num > 0
    /\ StoredProfit(strategy)[1] # 0


\* the start balance of a period record, as either implementation names it
StartBalance(rec) ==
    IF impl = "core" THEN rec.initial_balance ELSE rec.start_balance

\* C24: a period record is created exactly once, at the first step whose
\* timestamp falls in a period without a record, with the total equity
\* cash + shares_held * price of that step as its start balance and the
\* timestamp of that step as its start date; nothing later changes the
\* start balance or the start date of the record.
C24_PeriodSeededOnce ==
    (IsSnapshot /\ call.ret.step.len > 0)
        => LET before == call.pre.fiscal_year_data
               after == strategy.fiscal_year_data
           IN /\ Len(after) >= Len(before)
              /\ \A i, j \in 1..Len(after) : after[i][1] = after[j][1] => i = j
              /\ \A i \in 1..Len(before) :
                    /\ after[i][1] = before[i][1]
                    /\ after[i][2].start_date = before[i][2].start_date
                    /\ StartBalance(after[i][2]) = StartBalance(before[i][2])
              /\ \A i \in (Len(before) + 1)..Len(after) :
                    /\ after[i][1] = get_fiscal_year(call.ret.timestamp)
                    /\ after[i][2].start_date = call.ret.timestamp
                    /\ StartBalance(after[i][2]) =
                          call.pre.balance
                              + call.pre.share_num * call.ret.step.current_price


\* C25: in every snapshot the emitter yields, current_total is
\* balance + shares * current_price, total_profit is current_total minus the
\* initial cash, and balance, shares and trades are the cash, the shares held
\* and the trade_count of the ledger at that moment.
C25_SnapshotFiguresConsistent ==
    IsSnapshot =>
        LET info == call.ret.strategy_info
        IN /\ info.current_total = info.balance + info.shares * info.current_price
           /\ info.total_profit = info.current_total - InitialBalance
           /\ info.balance = strategy.balance
           /\ info.shares = strategy.share_num
           /\ info.trades = strategy.trade_count

C25_Witness ==
    /\ IsSnapshot
    /\ call.ret.strategy_info.shares > 0
    /\ call.ret.strategy_info.trades > call.pre.trade_count
    /\ call.ret.strategy_info.total_profit # 0


\* the average of one window with the fallback applied to that window alone
WindowAverage(org_data, window) ==
    IF Len(org_data) >= window THEN RollingMeanLast(org_data, window)
    ELSE Num(Last_(org_data).Close)

\* C26: calculate_moving_averages falls back per window: an average whose
\* window is longer than the history is the latest price, an average whose
\* window fits is still the mean of its trailing window (with 5 to 19 rows
\* short_ma is the mean of the last 5 prices and only long_ma is the latest
\* price), and neither is ever undefined.
C26_FallbackPerWindow ==
    (IsSnapshot /\ call.ret.step.len > 0)
        => LET org_data == call.ret.data_stream[1]
               step == call.ret.step
           IN /\ ~IsNaN(step.short_ma)
              /\ ~IsNaN(step.long_ma)
              /\ Eq(step.short_ma, WindowAverage(org_data, EmitShortWindow))
              /\ Eq(step.long_ma, WindowAverage(org_data, EmitLongWindow))


\* C27: get_strategy_result returns (cash, shares_held, trade_count, total
\* assets), the total being cash + shares_held * the price of the most
\* recent settlement, in every reachable portfolio state.
C27_StrategyResultTotal ==
    (call.op = "get_strategy_result" /\ ~IsNone(call.ret.settled_price))
        => /\ call.ret.value[1] = strategy.balance
           /\ call.ret.value[2] = strategy.share_num
           /\ call.ret.value[3] = strategy.trade_count
           /\ Eq(call.ret.value[4],
                 Num(strategy.balance
                        + strategy.share_num * Val(call.ret.settled_price)))


Equity(self, price) == self.balance + self.share_num * price

Traded == strategy.trade_count = call.pre.trade_count + 1

\* C28: a successful buy or sell at price p leaves the total equity
\* cash + shares_held * p unchanged, so within a step the equity computed
\* before the trade decision equals the equity settled after it.
C28_TradePreservesEquity ==
    /\ (call.op \in {"execute_buy", "execute_sell"} /\ Traded)
          => Equity(strategy, call.args[1]) = Equity(call.pre, call.args[1])
    /\ (call.op = "execute_strategy" /\ Traded)
          => /\ Equity(strategy, call.ret.current_price)
                    = Equity(call.pre, call.ret.current_price)
             /\ StoredProfit(strategy)[1]
                    = Equity(call.pre, call.ret.current_price) - InitialBalance

C28_Witness ==
    /\ call.op = "execute_strategy"
    /\ Traded
    /\ strategy.share_num < call.pre.share_num
    /\ call.pre.share_num > LotSize
    /\ Equity(strategy, call.ret.current_price) # InitialBalance


\* what one emitter step does to the ledger: nothing, one successful buy of
\* a lot at the step's price, or one successful sell of a lot at that price
LedgerUntouched ==
    /\ strategy'.balance = strategy.balance
    /\ strategy'.share_num = strategy.share_num
    /\ strategy'.trade_count = strategy.trade_count

OneBuy ==
    /\ IsSnapshot'
    /\ strategy'.share_num = strategy.share_num + LotSize
    /\ strategy'.trade_count = strategy.trade_count + 1
    /\ strategy'.balance = strategy.balance - call'.ret.step.current_price * LotSize

OneSell ==
    /\ IsSnapshot'
    /\ strategy'.share_num = strategy.share_num - LotSize
    /\ strategy'.trade_count = strategy.trade_count + 1
    /\ strategy'.balance = strategy.balance + call'.ret.step.current_price * LotSize

\* C29: after any sequence of strategy steps with B successful buys and S
\* successful sells, shares_held is 100 * (B - S), trade_count is B + S and
\* never decreases, and cash is the initial cash minus the costs of the buys
\* plus the revenues of the sells.  Stated by induction on the steps: the
\* ledger starts at (initial cash, 0, 0) and every step is no trade, one buy
\* or one sell.
C29_LedgerCountsTrades ==
    /\ strategy.balance = InitialBalance
    /\ strategy.share_num = 0
    /\ strategy.trade_count = 0
    /\ [](/\ strategy.share_num >= 0
          /\ strategy.share_num % LotSize = 0
          /\ strategy.share_num <= LotSize * strategy.trade_count
          /\ (strategy.trade_count - strategy.share_num \div LotSize) % 2 = 0)
    /\ [][LedgerUntouched \/ OneBuy \/ OneSell]_vars

C29_Witness ==
    /\ IsSnapshot
    /\ strategy.trade_count = 3
    /\ strategy.share_num = LotSize
    /\ call.pre.share_num = 0

=============================================================================
